---- MODULE Spec2Model ----
(***************************************************************************)
(* Model of atom/renderer/atom_renderer_client.cc: the per-frame observer  *)
(* (AtomRenderFrameObserver) that selects the world whose script-context   *)
(* events reach the client, and AtomRendererClient, which creates and      *)
(* frees one node::Environment per qualifying script context.              *)
(*                                                                         *)
(* The host engine (Blink/content) is the environment of the program: it   *)
(* creates and releases script contexts of any world in any frame, and it  *)
(* commits navigations that change a frame's document URL.  All callbacks  *)
(* arrive serialized on the renderer main thread, so every handler is one  *)
(* atomic action.                                                          *)
(***************************************************************************)
EXTENDS Integers, Sequences, FiniteSets, TLC

\* ---------------------------------------------------------------- bounds
MaxContexts == 3      \* script contexts the host creates in one run
MaxHookContexts == 2  \* the same, in the runs that add the other hooks

\* ------------------------------------------------------------- constants
MAIN_WORLD == 0
ISOLATED_WORLD == 999
\* a world id the host assigns itself, e.g. to a content script
OTHER_WORLD == MAIN_WORLD + 1

Null == 0             \* nullptr, for environments and contexts

\* The frames of the renderer: F1 is the main frame, F2 a subframe.
Frames == {"F1", "F2"}
\* Schemes of a document URL; "https" stands for every scheme other than
\* chrome-extension (about, file, http, ...).
Worlds == {MAIN_WORLD, OTHER_WORLD, ISOLATED_WORLD}
Schemes == {"https", "chrome-extension"}

VARIABLES
  isolated_world_,               \* AtomRendererClient::isolated_world_
  node_integration_initialized_, \* AtomRendererClient latch
  uv_env,                        \* NodeBindings::uv_env(): env id or Null
  environments,                  \* env id -> [context, alive]: every
                                 \* environment CreateEnvironment returned
  n_Initialize,                  \* runs of Initialize + PrepareMessageLoop
  n_RunMessageLoop,              \* runs of NodeBindings::RunMessageLoop
  n_set_uv_env,                  \* calls of set_uv_env(env), env non-null
  contexts,                      \* context handle -> [frame, world, live,
                                 \*   allowed]: every context the host made
  scheme,                        \* frame -> scheme of its document URL
  last,                          \* the last host callback and what it did
  worker,                        \* the worker thread: the command-line
                                 \* switch as read there, its script context
                                 \* and what its WebWorkerObserver was told
  n_ClearArchives                \* calls of asar::ClearArchives

vars == <<isolated_world_, node_integration_initialized_, uv_env,
          environments, n_Initialize, n_RunMessageLoop, n_set_uv_env,
          contexts, scheme, last, worker, n_ClearArchives>>

\* ----------------------------------------------------- frame predicates
\* content::RenderFrame::IsMainFrame
IsMainFrame(frame) == frame = "F1"

\* IsDevToolsExtension: GURL(document().url()).SchemeIs("chrome-extension")
IsDevToolsExtension(frame) == scheme[frame] = "chrome-extension"

\* ------------------------------------------------------- world selector
IsMainWorld(world_id) == world_id = MAIN_WORLD

IsIsolatedWorld(world_id) == world_id = ISOLATED_WORLD

\* Mutant: the two conditions of the isolated branch joined by "or".
ShouldNotifyClient_Or(frame, world_id) ==
  IF isolated_world_ \/ IsMainFrame(frame)
    THEN IsIsolatedWorld(world_id)
    ELSE IsMainWorld(world_id)

\* Mutant: the isolation mode is ignored, every frame is notified of its
\* main world.
ShouldNotifyClient_MainOnly(frame, world_id) == IsMainWorld(world_id)

ShouldNotifyClient(frame, world_id) ==
  IF isolated_world_ /\ IsMainFrame(frame)
    THEN IsIsolatedWorld(world_id)
    ELSE IsMainWorld(world_id)

\* ------------------------------------------------- client state, calls
\* The part of the program state the handlers read and write, as a record,
\* so that a handler is a function from state to state.
ClientState ==
  [initialized |-> node_integration_initialized_,
   uv_env |-> uv_env,
   environments |-> environments,
   n_Initialize |-> n_Initialize,
   n_RunMessageLoop |-> n_RunMessageLoop,
   n_set_uv_env |-> n_set_uv_env,
   forwarded |-> FALSE,
   calls |-> << >>]

Call(op, arg) == [op |-> op, arg |-> arg]

Called(st, op, arg) == [st EXCEPT !.calls = Append(@, Call(op, arg))]

\* node::Environment::GetCurrent(context): the live environment bound to
\* the context handle, or nullptr.
GetCurrent(envs, context) ==
  LET bound == {e \in DOMAIN envs :
                  envs[e].context = context /\ envs[e].alive}
  IN IF bound = {} THEN Null ELSE CHOOSE e \in bound : TRUE

\* ------------------------------------------ AtomRendererClient handlers
\* Mutant: the event is emitted without testing the default environment.
RunScriptsAtDocumentStart_Unchecked(st, render_frame) ==
  Called(st, "EmitEvent document-start", st.uv_env)

\* RunScriptsAtDocumentStart / RunScriptsAtDocumentEnd: the event goes to
\* the default environment, if there is one; render_frame is not used.
RunScriptsAtDocumentStart(st, render_frame) ==
  IF st.uv_env # Null
    THEN Called(st, "EmitEvent document-start", st.uv_env)
    ELSE st

RunScriptsAtDocumentEnd(st, render_frame) ==
  IF st.uv_env # Null
    THEN Called(st, "EmitEvent document-end", st.uv_env)
    ELSE st

\* DidCreateScriptContext, "Prepare the node bindings": the one-time
\* bootstrap behind the node_integration_initialized_ latch.
\* Mutant: the latch is tested but never set.
PrepareNodeBindings_NoLatch(st) ==
  IF ~st.initialized
    THEN Called(Called([st EXCEPT !.n_Initialize = @ + 1],
                       "Initialize", Null), "PrepareMessageLoop", Null)
    ELSE st

PrepareNodeBindings(st) ==
  IF ~st.initialized
    THEN Called(Called([st EXCEPT !.initialized = TRUE,
                                  !.n_Initialize = @ + 1],
                       "Initialize", Null), "PrepareMessageLoop", Null)
    ELSE st

\* DidCreateScriptContext, "Setup node environment for each window":
\* CreateEnvironment(context), the extended APIs, LoadEnvironment.  The new
\* environment's id is the length of st.environments afterwards.
SetupEnvironment(st, context) ==
  LET env == Len(st.environments) + 1
  IN Called(Called(Called(Called(
       [st EXCEPT !.environments =
                    Append(@, [context |-> context, alive |-> TRUE])],
       "CreateEnvironment", context),
       "BindTo", env), "AddRenderBindings", env), "LoadEnvironment", env)

\* DidCreateScriptContext, "Make uv loop being wrapped by window context".
\* Mutant: the default is designated but the loop is not run.
WrapUvLoop_NoPump(st, env) ==
  IF st.uv_env = Null
    THEN Called([st EXCEPT !.uv_env = env, !.n_set_uv_env = @ + 1],
                "set_uv_env", env)
    ELSE st

\* Mutant: no environment is ever designated.
WrapUvLoop_Never(st, env) == st

\* Mutant: every new environment takes the uv loop over.
WrapUvLoop_Always(st, env) ==
  Called(Called([st EXCEPT !.uv_env = env,
                           !.n_set_uv_env = @ + 1,
                           !.n_RunMessageLoop = @ + 1],
                "set_uv_env", env), "RunMessageLoop", Null)

WrapUvLoop(st, env) ==
  IF st.uv_env = Null
    THEN Called(Called([st EXCEPT !.uv_env = env,
                                  !.n_set_uv_env = @ + 1,
                                  !.n_RunMessageLoop = @ + 1],
                       "set_uv_env", env), "RunMessageLoop", Null)
    ELSE st

\* Mutant: the frame guard is missing.
DidCreateScriptContext_NoGuard(st, context, frame) ==
  LET s == SetupEnvironment(PrepareNodeBindings(st), context)
  IN WrapUvLoop(s, Len(s.environments))

\* Mutant: the devtools-extension exception is missing.
DidCreateScriptContext_MainOnly(st, context, frame) ==
  IF ~IsMainFrame(frame)
    THEN st
    ELSE LET s == SetupEnvironment(PrepareNodeBindings(st), context)
         IN WrapUvLoop(s, Len(s.environments))

DidCreateScriptContext(st, context, frame) ==
  IF ~IsMainFrame(frame) /\ ~IsDevToolsExtension(frame)
    THEN st
    ELSE LET s == SetupEnvironment(PrepareNodeBindings(st), context)
         IN WrapUvLoop(s, Len(s.environments))

\* WillReleaseScriptContext after its guard: the exit event, the default
\* designation, FreeEnvironment and EnvironmentDestroyed.  The two last
\* calls are made whether or not env is null.
\* Mutant: the comparison with the default environment is inverted.
ReleaseEnvironment_WrongCompare(st, env) ==
  LET s1 == IF env # Null THEN Called(st, "EmitEvent exit", env) ELSE st
      s2 == IF env # s1.uv_env
              THEN Called([s1 EXCEPT !.uv_env = Null], "set_uv_env", Null)
              ELSE s1
      s3 == Called(IF env # Null
                     THEN [s2 EXCEPT !.environments[env].alive = FALSE]
                     ELSE s2,
                   "FreeEnvironment", env)
  IN Called(s3, "EnvironmentDestroyed", env)

\* Mutant: the default designation is not cleared.
ReleaseEnvironment_KeepDefault(st, env) ==
  LET s1 == IF env # Null THEN Called(st, "EmitEvent exit", env) ELSE st
      s3 == Called(IF env # Null
                     THEN [s1 EXCEPT !.environments[env].alive = FALSE]
                     ELSE s1,
                   "FreeEnvironment", env)
  IN Called(s3, "EnvironmentDestroyed", env)

ReleaseEnvironment(st, env) ==
  LET s1 == IF env # Null THEN Called(st, "EmitEvent exit", env) ELSE st
      s2 == IF env = s1.uv_env
              THEN Called([s1 EXCEPT !.uv_env = Null], "set_uv_env", Null)
              ELSE s1
      s3 == Called(IF env # Null
                     THEN [s2 EXCEPT !.environments[env].alive = FALSE]
                     ELSE s2,
                   "FreeEnvironment", env)
  IN Called(s3, "EnvironmentDestroyed", env)

\* Mutant: the frame guard of the release path is missing.
WillReleaseScriptContext_NoGuard(st, context, frame) ==
  ReleaseEnvironment(st, GetCurrent(st.environments, context))

WillReleaseScriptContext(st, context, frame) ==
  IF ~IsMainFrame(frame) /\ ~IsDevToolsExtension(frame)
    THEN st
    ELSE ReleaseEnvironment(st, GetCurrent(st.environments, context))

\* -------------------------------------- AtomRenderFrameObserver handlers
CreateIsolatedWorldContext(st) ==
  Called(Called(Called(st,
    "setIsolatedWorldHumanReadableName", ISOLATED_WORLD),
    "setIsolatedWorldSecurityOrigin", ISOLATED_WORLD),
    "executeScriptInIsolatedWorld", ISOLATED_WORLD)

SetupMainWorldOverrides(st, context) ==
  Called(st, "SetupMainWorldOverrides", context)

\* Mutant: the bootstrap is not restricted to the main frame.
Observer_DidCreateScriptContext_AnyFrame(st, context, frame, world_id) ==
  LET s1 == IF ShouldNotifyClient(frame, world_id)
              THEN DidCreateScriptContext([st EXCEPT !.forwarded = TRUE],
                                          context, frame)
              ELSE st
  IN IF isolated_world_ /\ IsMainWorld(world_id)
       THEN SetupMainWorldOverrides(CreateIsolatedWorldContext(s1), context)
       ELSE s1

Observer_DidCreateScriptContext(st, context, frame, world_id) ==
  LET s1 == IF ShouldNotifyClient(frame, world_id)
              THEN DidCreateScriptContext([st EXCEPT !.forwarded = TRUE],
                                          context, frame)
              ELSE st
  IN IF isolated_world_ /\ IsMainWorld(world_id) /\ IsMainFrame(frame)
       THEN SetupMainWorldOverrides(CreateIsolatedWorldContext(s1), context)
       ELSE s1

\* Mutant: every release is forwarded, the selector is not asked.
Observer_WillReleaseScriptContext_Always(st, context, frame, world_id) ==
  WillReleaseScriptContext([st EXCEPT !.forwarded = TRUE], context, frame)

Observer_WillReleaseScriptContext(st, context, frame, world_id) ==
  IF ShouldNotifyClient(frame, world_id)
    THEN WillReleaseScriptContext([st EXCEPT !.forwarded = TRUE],
                                  context, frame)
    ELSE st

\* ---------------------------------------------------------- worker hooks
\* Mutant: the switch is not tested.
DidInitializeWorkerContextOnWorkerThread_Unconditional(w, has_switch) ==
  [w EXCEPT !.context = TRUE, !.told = "ContextCreated"]

\* DidInitializeWorkerContextOnWorkerThread, run on the worker thread for
\* its new context: WebWorkerObserver::GetCurrent()->ContextCreated(context)
\* if the command line has kNodeIntegrationInWorker.  told is what the
\* hook told the thread's observer.
DidInitializeWorkerContextOnWorkerThread(w, has_switch) ==
  [w EXCEPT !.context = TRUE,
            !.told = IF has_switch THEN "ContextCreated" ELSE "nothing"]

\* WillDestroyWorkerContextOnWorkerThread: ContextWillDestroy(context)
\* under the same test.
WillDestroyWorkerContextOnWorkerThread(w, has_switch) ==
  [w EXCEPT !.context = FALSE,
            !.told = IF has_switch THEN "ContextWillDestroy" ELSE "nothing"]

\* ------------------------------------------------------------------ Init
\* ----------------------------------------------------------- ShouldFork
\* Mutant: server redirects are not forked.
ShouldFork_NoRedirect(frame, url, http_method, is_initial_navigation, is_server_redirect) ==
  [result |-> http_method = "GET" /\ ~is_server_redirect,
   send_referrer |-> TRUE]

\* AtomRendererClient::ShouldFork: the return value and the value stored
\* through send_referrer.
ShouldFork(frame, url, http_method, is_initial_navigation, is_server_redirect) ==
  [result |-> http_method = "GET", send_referrer |-> TRUE]

NoEvent ==
  [kind |-> "none", frame |-> "none", world |-> 0, context |-> Null,
   notify |-> FALSE, forwarded |-> FALSE, calls |-> << >>,
   http_method |-> "", result |-> FALSE, send_referrer |-> FALSE]

\* No worker hook has run: the switch is not read yet, the worker thread
\* has no script context and its observer was told nothing.
NoWorker == [switch |-> "unread", context |-> FALSE, told |-> "nothing"]

\* AtomRendererClient::AtomRendererClient: the latch is false, the
\* isolation flag is read once from the command line.  No frame has a
\* script context yet; each frame shows some document.
Init ==
  /\ isolated_world_ \in BOOLEAN
  /\ node_integration_initialized_ = FALSE
  /\ uv_env = Null
  /\ environments = << >>
  /\ n_Initialize = 0
  /\ n_RunMessageLoop = 0
  /\ n_set_uv_env = 0
  /\ contexts = << >>
  /\ scheme \in [Frames -> Schemes]
  /\ last = NoEvent
  /\ worker = NoWorker
  /\ n_ClearArchives = 0

\* ------------------------------------------------------------- actions
Commit(st) ==
  /\ node_integration_initialized_' = st.initialized
  /\ uv_env' = st.uv_env
  /\ environments' = st.environments
  /\ n_Initialize' = st.n_Initialize
  /\ n_RunMessageLoop' = st.n_RunMessageLoop
  /\ n_set_uv_env' = st.n_set_uv_env

LiveContext(frame, world_id) ==
  {c \in DOMAIN contexts : /\ contexts[c].frame = frame
                           /\ contexts[c].world = world_id
                           /\ contexts[c].live}

\* The host creates the script context of world world_id in a frame that
\* has none, and calls the frame observer's DidCreateScriptContext.
ContextCreated(frame, world_id) ==
  /\ Len(contexts) < MaxContexts
  /\ LiveContext(frame, world_id) = {}
  /\ LET context == Len(contexts) + 1
         st == Observer_DidCreateScriptContext(ClientState, context,
                                               frame, world_id)
     IN /\ Commit(st)
        /\ contexts' = Append(contexts,
             [frame |-> frame, world |-> world_id, live |-> TRUE,
              allowed |-> IsMainFrame(frame) \/ IsDevToolsExtension(frame),
              forwarded |-> st.forwarded])
        /\ last' = [NoEvent EXCEPT
                      !.kind = "created", !.frame = frame,
                      !.world = world_id, !.context = context,
                      !.notify = ShouldNotifyClient(frame, world_id),
                      !.forwarded = st.forwarded,
                      !.calls = st.calls]
  /\ UNCHANGED <<isolated_world_, scheme, worker, n_ClearArchives>>

\* The host releases a live script context, calling the frame observer's
\* WillReleaseScriptContext first.
ContextReleased(context) ==
  /\ context \in DOMAIN contexts
  /\ contexts[context].live
  /\ LET frame == contexts[context].frame
         world_id == contexts[context].world
         st == Observer_WillReleaseScriptContext(ClientState, context,
                                                 frame, world_id)
     IN /\ Commit(st)
        /\ contexts' = [contexts EXCEPT ![context].live = FALSE]
        /\ last' = [NoEvent EXCEPT
                      !.kind = "released", !.frame = frame,
                      !.world = world_id, !.context = context,
                      !.notify = ShouldNotifyClient(frame, world_id),
                      !.forwarded = st.forwarded,
                      !.calls = st.calls]
  /\ UNCHANGED <<isolated_world_, scheme, worker, n_ClearArchives>>

\* The URL of a frame's document changes scheme while its script contexts
\* stay (the host keeps the window of an initial about:blank document when
\* the frame commits a same-origin document; document.open() rewrites the
\* URL).  The program has no handler for it, but IsDevToolsExtension reads
\* the URL whenever a handler runs.
DocumentURLChanged(frame, s) ==
  /\ s # scheme[frame]
  /\ scheme' = [scheme EXCEPT ![frame] = s]
  /\ UNCHANGED <<isolated_world_, node_integration_initialized_, uv_env,
                 environments, n_Initialize, n_RunMessageLoop,
                 n_set_uv_env, contexts, last, worker, n_ClearArchives>>

Next ==
  \/ \E frame \in Frames, world_id \in Worlds :
       ContextCreated(frame, world_id)
  \/ \E context \in 1..MaxContexts : ContextReleased(context)
  \/ \E frame \in Frames, s \in Schemes : DocumentURLChanged(frame, s)

Spec == Init /\ [][Next]_vars


\* The same host events, with fewer script contexts: the part of Next that
\* the specifications of the other hooks interleave with.
NextFewContexts ==
  \/ \E frame \in Frames, world_id \in Worlds :
       Len(contexts) < MaxHookContexts /\ ContextCreated(frame, world_id)
  \/ \E context \in 1..MaxHookContexts : ContextReleased(context)
  \/ \E frame \in Frames, s \in Schemes : DocumentURLChanged(frame, s)

\* --------------------------------------------- document lifecycle hooks
\* The host reports that a frame's document reached the start / the end
\* phase; it does so for any frame at any time.
DocumentStart(frame) ==
  /\ LET st == RunScriptsAtDocumentStart(ClientState, frame)
     IN /\ Commit(st)
        /\ last' = [NoEvent EXCEPT !.kind = "document-start",
                                   !.frame = frame, !.calls = st.calls]
  /\ UNCHANGED <<isolated_world_, scheme, contexts, worker,
                 n_ClearArchives>>

DocumentEnd(frame) ==
  /\ LET st == RunScriptsAtDocumentEnd(ClientState, frame)
     IN /\ Commit(st)
        /\ last' = [NoEvent EXCEPT !.kind = "document-end",
                                   !.frame = frame, !.calls = st.calls]
  /\ UNCHANGED <<isolated_world_, scheme, contexts, worker,
                 n_ClearArchives>>

NextDocument ==
  \/ NextFewContexts
  \/ \E frame \in Frames : DocumentStart(frame)
  \/ \E frame \in Frames : DocumentEnd(frame)

SpecDocument == Init /\ [][NextDocument]_vars

\* ------------------------------------------------ navigation interception
Methods == {"GET", "POST", "PUT", "DELETE"}

\* The host asks whether a navigation of a frame is to be forked.  Of the
\* arguments only the method is kept in last, with the two results.
ShouldForkCalled(frame, url, http_method, is_initial_navigation, is_server_redirect) ==
  /\ LET r == ShouldFork(frame, url, http_method, is_initial_navigation,
                         is_server_redirect)
     IN last' = [NoEvent EXCEPT !.kind = "fork",
                                !.http_method = http_method,
                                !.result = r.result,
                                !.send_referrer = r.send_referrer]
  /\ UNCHANGED <<isolated_world_, node_integration_initialized_, uv_env,
                 environments, n_Initialize, n_RunMessageLoop,
                 n_set_uv_env, contexts, scheme, worker, n_ClearArchives>>

NextFork ==
  \/ NextFewContexts
  \/ \E frame \in Frames, url \in Schemes, http_method \in Methods,
        is_initial_navigation \in BOOLEAN, is_server_redirect \in BOOLEAN :
       ShouldForkCalled(frame, url, http_method, is_initial_navigation,
                        is_server_redirect)

SpecFork == Init /\ [][NextFork]_vars

\* ------------------------------------------------------- worker thread
\* base::CommandLine::HasSwitch(kNodeIntegrationInWorker).  The command
\* line is fixed when the process starts; the model fixes the value of the
\* switch at its first read.
SwitchValues ==
  IF worker.switch = "unread" THEN {"on", "off"} ELSE {worker.switch}

MainThreadVars ==
  <<isolated_world_, node_integration_initialized_, uv_env, environments,
    n_Initialize, n_RunMessageLoop, n_set_uv_env, contexts, scheme, last,
    n_ClearArchives>>

\* The host creates the script context of the worker, on its thread.
WorkerContextInitialized ==
  /\ ~worker.context
  /\ \E sw \in SwitchValues :
       worker' = DidInitializeWorkerContextOnWorkerThread(
                   [worker EXCEPT !.switch = sw], sw = "on")
  /\ UNCHANGED MainThreadVars

\* The host is about to destroy the script context of the worker.
WorkerContextWillBeDestroyed ==
  /\ worker.context
  /\ \E sw \in SwitchValues :
       worker' = WillDestroyWorkerContextOnWorkerThread(
                   [worker EXCEPT !.switch = sw], sw = "on")
  /\ UNCHANGED MainThreadVars

NextWorker ==
  \/ NextFewContexts
  \/ WorkerContextInitialized
  \/ WorkerContextWillBeDestroyed

SpecWorker == Init /\ [][NextWorker]_vars

\* ------------------------------------------------------------ shutdown
\* AtomRendererClient::~AtomRendererClient: asar::ClearArchives() and
\* nothing else; no environment is freed here.
AtomRendererClient_Destructor(n) == n + 1

\* The host destroys the client, once, at renderer shutdown, after it has
\* released every script context; no callback follows.
ClientDestroyed ==
  /\ n_ClearArchives = 0
  /\ \A c \in DOMAIN contexts : ~contexts[c].live
  /\ n_ClearArchives' = AtomRendererClient_Destructor(n_ClearArchives)
  /\ last' = [NoEvent EXCEPT !.kind = "destroyed",
                             !.calls = <<Call("ClearArchives", Null)>>]
  /\ UNCHANGED <<isolated_world_, node_integration_initialized_, uv_env,
                 environments, n_Initialize, n_RunMessageLoop,
                 n_set_uv_env, contexts, scheme, worker>>

NextShutdown ==
  \/ n_ClearArchives = 0 /\ NextFewContexts
  \/ ClientDestroyed

SpecShutdown == Init /\ [][NextShutdown]_vars

\* =============================================================== claims
\* Helpers of the formulas below.
ContextOf(env) == contexts[environments[env].context]

EnvsBoundTo(context) ==
  {e \in DOMAIN environments :
     environments[e].context = context /\ environments[e].alive}

\* The state of a context in the bridge's state machine.
CtxState(context) ==
  IF EnvsBoundTo(context) # {} THEN "EnvironmentActive"
  ELSE IF \E e \in DOMAIN environments : environments[e].context = context
    THEN "Destroyed"
    ELSE "NoEnvironment"

\* context is released by this step
ReleasedNow(context) ==
  /\ context \in DOMAIN contexts
  /\ contexts[context].live
  /\ ~contexts'[context].live

\* an environment is created by this step
CreatedEnvNow == Len(environments') > Len(environments)

CallOps(calls) == [i \in DOMAIN calls |-> calls[i].op]

\* C1: no environment was ever created for a context of a frame that, when
\* the context was created, was neither the main frame nor showed a
\* chrome-extension document.
C1_NoEnvironmentForUntrustedFrame ==
  \A e \in DOMAIN environments : ContextOf(e).allowed

\* A subframe with an https document got its main-world context (the world
\* the selector notifies for) while environments exist elsewhere.
C1_Witness ==
  /\ environments # << >>
  /\ \E c \in DOMAIN contexts :
       /\ ~contexts[c].allowed
       /\ contexts[c].frame = "F2"
       /\ contexts[c].world = MAIN_WORLD

\* C2: for every isolation mode, frame kind and world id, the frame observer
\* notifies the client iff (isolated and main frame and world 999) or (not
\* (isolated and main frame) and world 0).
C2_ShouldNotifyClient ==
  last.kind \in {"created", "released"} =>
    LET main == last.frame = "F1"
    IN last.notify <=>
         \/ isolated_world_ /\ main /\ last.world = ISOLATED_WORLD
         \/ ~(isolated_world_ /\ main) /\ last.world = MAIN_WORLD

\* The selector was asked about a world that is neither 0 nor 999, and
\* about world 0 of a subframe in isolated mode.
C2_Witness ==
  /\ isolated_world_
  /\ last.kind = "created" /\ last.frame = "F2"
  /\ last.world = MAIN_WORLD /\ last.notify
  /\ \E c \in DOMAIN contexts : contexts[c].world = OTHER_WORLD

\* C3: the one-time bootstrap (Initialize + PrepareMessageLoop) runs at most
\* once; it runs in the step that creates the first environment, before
\* CreateEnvironment; every step that creates an environment leaves it run
\* exactly once.
C3_BootstrapOnce ==
  [][/\ n_Initialize' \in {0, 1}
     /\ n_Initialize' # n_Initialize =>
          /\ environments = << >>
          /\ Len(last'.calls) >= 3
          /\ CallOps(SubSeq(last'.calls, 1, 3)) =
               <<"Initialize", "PrepareMessageLoop", "CreateEnvironment">>
     /\ CreatedEnvNow =>
          /\ n_Initialize' = 1
          /\ n_Initialize = 1 =>
               \A i \in DOMAIN last'.calls :
                 last'.calls[i].op \notin {"Initialize", "PrepareMessageLoop"}
    ]_vars

\* A second environment was created after the first was destroyed, without
\* running the bootstrap again.
C3_Witness ==
  /\ Len(environments) >= 2
  /\ \A e \in DOMAIN environments : environments[e].alive <=> e = 2
  /\ n_Initialize = 1
  /\ last.kind = "created" /\ last.calls[1].op = "CreateEnvironment"

\* The guard of both client handlers, as the frame stands now.
GuardPasses(frame) == IsMainFrame(frame) \/ IsDevToolsExtension(frame)

\* C4: when the context of the default environment is released the default
\* designation is cleared, and it stays empty until a step that creates an
\* environment (uv_env holds one handle, so at most one environment is
\* default).
C4_DefaultClearedByRelease ==
  [][/\ \A c \in DOMAIN contexts :
          (ReleasedNow(c) /\ uv_env # Null /\ uv_env \in EnvsBoundTo(c))
            => uv_env' = Null
     /\ (uv_env = Null /\ uv_env' # Null) => CreatedEnvNow
    ]_vars

\* C5 as stated: the default designation and the pump run happen once per
\* process.
C5_OncePerProcess == n_set_uv_env <= 1 /\ n_RunMessageLoop <= 1

\* C5 amended: a step designates a default and runs the pump (once each,
\* set_uv_env then RunMessageLoop, as the step's last calls) iff it creates
\* an environment while no environment is default; the environment
\* designated is the one just created, and the first environment of the
\* process is always designated.
C5_DesignatedWheneverNoDefault ==
  [][LET d == n_set_uv_env' - n_set_uv_env
         n == Len(last'.calls)
     IN /\ d \in {0, 1}
        /\ n_RunMessageLoop' - n_RunMessageLoop = d
        /\ (d = 1) <=> (CreatedEnvNow /\ uv_env = Null)
        /\ d = 1 =>
             /\ uv_env' = Len(environments')
             /\ n >= 2
             /\ last'.calls[n - 1] = Call("set_uv_env", uv_env')
             /\ last'.calls[n] = Call("RunMessageLoop", Null)
        /\ (environments = << >> /\ CreatedEnvNow) => uv_env' = 1
    ]_vars

\* The pump ran a second time, for an environment created after the first
\* default was released.
C5_Witness ==
  /\ n_RunMessageLoop = 2 /\ n_set_uv_env = 2
  /\ uv_env = 2 /\ ~environments[1].alive

\* C6: every environment that is alive is bound to a context that is
\* still live.
C6_NoEnvironmentOutlivesContext ==
  \A e \in DOMAIN environments :
    environments[e].alive => ContextOf(e).live

C8_ReleaseWithoutEnvironmentIsNoOp ==
  [][\A c \in DOMAIN contexts :
       LET frame == contexts[c].frame
       IN (/\ ReleasedNow(c)
           /\ ShouldNotifyClient(frame, contexts[c].world)
           /\ GuardPasses(frame)
           /\ GetCurrent(environments, c) = Null) =>
            /\ last'.calls = << >>
            /\ UNCHANGED <<uv_env, node_integration_initialized_,
                           environments>>
    ]_vars

\* C9: right after a context-created event that the selector forwards, in
\* a frame that is the main frame or shows a chrome-extension document,
\* exactly one environment is bound to the context and the context is in
\* state EnvironmentActive.
C9_EnvironmentCreated ==
  (/\ last.kind = "created"
   /\ last.notify
   /\ contexts[last.context].allowed) =>
     /\ Cardinality(EnvsBoundTo(last.context)) = 1
     /\ CtxState(last.context) = "EnvironmentActive"

\* An extension subframe got its main-world context in isolated mode.
C9_Witness ==
  /\ isolated_world_
  /\ last.kind = "created" /\ last.frame = "F2"
  /\ last.world = MAIN_WORLD
  /\ contexts[last.context].allowed
  /\ CtxState(last.context) = "EnvironmentActive"

\* C10: in isolated mode no environment is ever bound to a main-world
\* context of the main frame; the main frame's environments are bound to
\* contexts of world 999; and the main frame's main-world context-created
\* event makes exactly the isolated-world bootstrap calls.
C10_MainWorldNeverBoundWhenIsolated ==
  isolated_world_ =>
    /\ \A e \in DOMAIN environments :
         ContextOf(e).frame = "F1" => ContextOf(e).world = ISOLATED_WORLD
    /\ (/\ last.kind = "created" /\ last.frame = "F1"
        /\ last.world = MAIN_WORLD) =>
         /\ CtxState(last.context) = "NoEnvironment"
         /\ last.calls =
              <<Call("setIsolatedWorldHumanReadableName", ISOLATED_WORLD),
                Call("setIsolatedWorldSecurityOrigin", ISOLATED_WORLD),
                Call("executeScriptInIsolatedWorld", ISOLATED_WORLD),
                Call("SetupMainWorldOverrides", last.context)>>

\* Isolated mode: the main frame's main-world context exists without an
\* environment and its isolated-world context has one.
C10_Witness ==
  /\ isolated_world_
  /\ \E c \in DOMAIN contexts :
       /\ contexts[c].frame = "F1" /\ contexts[c].world = MAIN_WORLD
       /\ contexts[c].live /\ CtxState(c) = "NoEnvironment"
  /\ \E c \in DOMAIN contexts :
       /\ contexts[c].frame = "F1" /\ contexts[c].world = ISOLATED_WORLD
       /\ CtxState(c) = "EnvironmentActive"

\* The calls of the isolated-world bootstrap for a main-world context:
\* CreateIsolatedWorldContext, then SetupMainWorldOverrides.
BootstrapCalls(context) ==
  <<Call("setIsolatedWorldHumanReadableName", ISOLATED_WORLD),
    Call("setIsolatedWorldSecurityOrigin", ISOLATED_WORLD),
    Call("executeScriptInIsolatedWorld", ISOLATED_WORLD),
    Call("SetupMainWorldOverrides", context)>>

BootstrapOps ==
  {"setIsolatedWorldHumanReadableName", "setIsolatedWorldSecurityOrigin",
   "executeScriptInIsolatedWorld", "SetupMainWorldOverrides"}

\* C11: a host callback makes a call of the isolated-world bootstrap iff
\* isolated mode is on, the callback is context-created, the world is the
\* main world and the frame is the main frame; then the bootstrap is the
\* end of the callback: CreateIsolatedWorldContext followed by
\* SetupMainWorldOverrides on the created context.
C11_BootstrapIffIsolatedMainWorldOfMainFrame ==
  LET n == Len(last.calls)
      ran == \E i \in DOMAIN last.calls : last.calls[i].op \in BootstrapOps
  IN /\ ran <=> /\ isolated_world_
                /\ last.kind = "created"
                /\ last.world = MAIN_WORLD
                /\ last.frame = "F1"
     /\ ran => /\ n >= 4
               /\ SubSeq(last.calls, n - 3, n) = BootstrapCalls(last.context)
               /\ \A i \in 1..(n - 4) : last.calls[i].op \notin BootstrapOps

\* Isolated mode: the bootstrap ran for the main frame's main world, after
\* a subframe's main-world context was created without it.
C11_Witness ==
  /\ isolated_world_
  /\ last.kind = "created" /\ last.frame = "F1" /\ last.world = MAIN_WORLD
  /\ last.calls = BootstrapCalls(last.context)
  /\ \E c \in DOMAIN contexts :
       contexts[c].frame = "F2" /\ contexts[c].world = MAIN_WORLD

\* C12: the frame observer forwards the release of a context to the client
\* iff it forwarded the creation of that context; a forwarded release is of
\* a context that was created before and not released yet.
C12_ReleaseForwardedIffCreationWas ==
  [][\A c \in DOMAIN contexts :
       ReleasedNow(c) =>
         /\ last'.kind = "released" /\ last'.context = c
         /\ last'.forwarded <=> contexts[c].forwarded
    ]_vars

\* A forwarded creation was followed by the forwarded release of the same
\* context, and a context that was not forwarded was released as well.
C12_Witness ==
  /\ last.kind = "released" /\ last.forwarded
  /\ contexts[last.context].forwarded
  /\ \E c \in DOMAIN contexts :
       ~contexts[c].forwarded /\ ~contexts[c].live

\* the context created by this step, or Null
CreatedNow ==
  IF Len(contexts') > Len(contexts) THEN Len(contexts') ELSE Null

\* C13: a context-created or context-released event that the selector does
\* not forward, or whose frame fails the guard, leaves the latch, the
\* default designation, the environments and the counters unchanged and
\* makes no exit, pump, create or destroy call.
C13_RejectedEventChangesNothing ==
  [][\A c \in DOMAIN contexts' :
       LET frame == contexts'[c].frame
           world_id == contexts'[c].world
       IN (/\ c = CreatedNow \/ ReleasedNow(c)
           /\ ~ShouldNotifyClient(frame, world_id) \/ ~GuardPasses(frame)) =>
            /\ UNCHANGED <<node_integration_initialized_, uv_env,
                           environments, n_Initialize, n_RunMessageLoop,
                           n_set_uv_env>>
            /\ \A i \in DOMAIN last'.calls :
                 last'.calls[i].op \in BootstrapOps
    ]_vars

\* A release was rejected by the guard although an environment is bound to
\* its context, and a creation was rejected in a subframe.
C13_Witness ==
  /\ last.kind = "released" /\ last.notify
  /\ last.calls = << >>
  /\ CtxState(last.context) = "EnvironmentActive"
  /\ \E c \in DOMAIN contexts :
       ~contexts[c].allowed /\ CtxState(c) = "NoEnvironment"

\* C14: a document-start / document-end hook emits its event into the
\* default environment iff there is one (and makes no other call), and
\* leaves the latch, the default designation, the environments, the
\* counters and the contexts unchanged.
C14_DocumentHooksOnlyEmit ==
  [][last'.kind \in {"document-start", "document-end"} =>
       /\ last'.calls =
            (IF uv_env # Null
               THEN <<Call("EmitEvent " \o last'.kind, uv_env)>>
               ELSE << >>)
       /\ UNCHANGED <<node_integration_initialized_, uv_env, environments,
                      n_Initialize, n_RunMessageLoop, n_set_uv_env,
                      contexts>>
    ]_vars

\* document-end was emitted into the default environment while a second
\* environment is alive (document-start without a default is the other
\* case, reached from every initial state).
C14_Witness ==
  /\ last.kind = "document-end" /\ last.frame = "F2"
  /\ uv_env # Null
  /\ last.calls = <<Call("EmitEvent document-end", uv_env)>>
  /\ \E e \in DOMAIN environments : e # uv_env /\ environments[e].alive

\* C15: every call of ShouldFork, whatever the frame, the URL and the two
\* flags, returns true iff the method is "GET" and sets send_referrer to
\* true; it changes nothing of the client's state.
C15_ShouldForkIffGet ==
  [][last'.kind = "fork" =>
       /\ last'.result <=> last'.http_method = "GET"
       /\ last'.send_referrer
       /\ UNCHANGED <<node_integration_initialized_, uv_env, environments,
                      n_Initialize, n_RunMessageLoop, n_set_uv_env,
                      contexts>>
    ]_vars

\* A POST navigation was refused, with the referrer requested, while an
\* environment is alive.
C15_Witness ==
  /\ last.kind = "fork" /\ last.http_method = "POST"
  /\ ~last.result /\ last.send_referrer
  /\ uv_env # Null

\* C16: a worker hook, at any point between main-thread callbacks, tells
\* the worker's observer ContextCreated / ContextWillDestroy iff the
\* node-integration-in-worker switch is set, whatever the main-thread state
\* is, and leaves every main-thread variable unchanged.
C16_WorkerHooksForwardIffSwitch ==
  [][worker' # worker =>
       /\ worker'.switch \in {"on", "off"}
       /\ worker.switch # "unread" => worker'.switch = worker.switch
       /\ worker'.told =
            (IF worker'.switch = "off" THEN "nothing"
             ELSE IF worker'.context THEN "ContextCreated"
             ELSE "ContextWillDestroy")
       /\ UNCHANGED MainThreadVars
    ]_vars

\* With the switch set, the worker's context was created before and is
\* destroyed after the main thread created an environment.
C16_Witness ==
  /\ worker.switch = "on" /\ worker.told = "ContextWillDestroy"
  /\ uv_env # Null
  /\ last.kind = "released"

\* C17: a step that creates an environment designates it and runs the pump
\* once iff no environment is default before it; otherwise the default
\* stays, the new environment is not default and the pump is not run.  The
\* pump has run as often as a default was designated, and a default is
\* designated only when there is none.
C17_DesignateIffNoDefault ==
  [][/\ n_RunMessageLoop = n_set_uv_env
     /\ n_RunMessageLoop' = n_set_uv_env'
     /\ CreatedEnvNow =>
          IF uv_env = Null
            THEN /\ uv_env' = Len(environments')
                 /\ n_RunMessageLoop' = n_RunMessageLoop + 1
            ELSE /\ uv_env' = uv_env
                 /\ n_RunMessageLoop' = n_RunMessageLoop
                 /\ \A i \in DOMAIN last'.calls :
                      last'.calls[i].op \notin {"set_uv_env", "RunMessageLoop"}
     /\ (uv_env' # uv_env /\ uv_env' # Null) => uv_env = Null
     /\ n_RunMessageLoop' # n_RunMessageLoop => CreatedEnvNow
    ]_vars

\* A second environment was created while the first is the default: it is
\* not default and the pump has run once.
C17_Witness ==
  /\ last.kind = "created"
  /\ Len(environments) = 2
  /\ environments[1].alive /\ environments[2].alive
  /\ uv_env = 1
  /\ n_RunMessageLoop = 1

\* C19: the default-environment reference is null or refers to an
\* environment that was created and is not freed.
C19_DefaultIsAlive ==
  uv_env # Null =>
    uv_env \in DOMAIN environments /\ environments[uv_env].alive

\* The default environment was released: its designation was cleared in
\* the callback that freed it, while another environment stays alive.
C19_Witness ==
  /\ last.kind = "released"
  /\ \E i \in DOMAIN last.calls : last.calls[i] = Call("set_uv_env", Null)
  /\ \E i \in DOMAIN last.calls : last.calls[i].op = "FreeEnvironment"
                                  /\ last.calls[i].arg # Null
  /\ uv_env = Null
  /\ \E e \in DOMAIN environments : environments[e].alive

\* C20 as stated: whenever an environment is alive, an alive environment
\* is the default.
C20_ActiveImpliesDefault ==
  (\E e \in DOMAIN environments : environments[e].alive) =>
    uv_env # Null /\ environments[uv_env].alive

\* C20 amended: alive environments are without a default only after the
\* default environment was destroyed: the designation is lost only in the
\* step that frees the default environment, every step that creates an
\* environment ends with an alive default, and a state with alive
\* environments and no default has a destroyed environment.
C20_NoDefaultOnlyAfterItsRelease ==
  [][/\ (/\ uv_env' = Null
         /\ \E e \in DOMAIN environments' : environments'[e].alive)
          => \E e \in DOMAIN environments' : ~environments'[e].alive
     /\ CreatedEnvNow => uv_env' # Null /\ environments'[uv_env'].alive
     /\ (uv_env # Null /\ uv_env' = Null) => ~environments'[uv_env].alive
    ]_vars

\* The default environment was released while a second one is alive, and
\* since then no environment is default.
C20_Witness ==
  /\ uv_env = Null
  /\ Len(environments) = 2
  /\ ~environments[1].alive /\ environments[2].alive
  /\ contexts[environments[2].context].live

\* C18: the archive cache is cleared at most once, and when it has been
\* cleared no environment is alive.
C18_ArchivesClearedAfterEnvironments ==
  /\ n_ClearArchives <= 1
  /\ n_ClearArchives = 1 =>
       \A e \in DOMAIN environments : ~environments[e].alive
====
